---- MODULE Spec2Model ----
(***************************************************************************)
(* The game of Nim of piotrkubala/nim: the heap model and game engine of   *)
(* src/src/game/nim/nim_game.rs and the control loop of                    *)
(* src/src/game/system.rs.                                                 *)
(*                                                                         *)
(* Two drivers share the state: EngineSpec calls the public methods of     *)
(* NimGame with arbitrary arguments, Spec runs Game::run tick by tick      *)
(* (FairSpec is Spec without quit events, under the fairness of a running  *)
(* loop and a human who keeps clicking counters).                          *)
(***************************************************************************)
EXTENDS Integers, Sequences, FiniteSets

\* ---------------------------------------------------------------- bounds
\* GameSettings.heaps_count (main.rs:13 sets 25), scaled down.
HeapsCount == 3
\* GameSettings.max_stones_per_heap (main.rs:14 sets 40), scaled down.
MaxStonesPerHeap == 2
\* The longest a frame may take, in frame intervals.
MaxFrameTime == 2

\* ------------------------------------------------------ program constants
\* The count the default heap asks for (system.rs:116).
DefaultHeapCount == 10
\* draw_board's margin_top (nim_game.rs:181 sets 100 px), in model pixels.
MarginTop == 1
\* Half of draw_board's margin_between_heaps (nim_game.rs:190), in model pixels.
HalfMarginBetweenHeaps == 1
\* The width draw_board gives a heap (nim_game.rs:195), in model pixels.
HeapWidthWithMargin == 1
\* draw_board's margin_x (nim_game.rs:187), in model pixels.
MarginX == 0
\* The height of the game area (nim_game.rs:185), in model pixels.
GameAreaHeight == 3
\* GameSettings.microseconds_per_ai_move (main.rs:12), in frame intervals.
MicrosecondsPerAiMove == 2

\* Option<T>: None, or Some(v) holding v.
None == <<>>
Some(v) == <<v>>
Unwrap(option) == option[1]

\* -------------------------------------------------------------- helpers
Min(a, b) == IF a <= b THEN a ELSE b
Max(a, b) == IF a >= b THEN a ELSE b

\* The ^ of two u32 values, bit by bit.
BitXor[a \in Nat, b \in Nat] ==
    IF a = 0 /\ b = 0 THEN 0
    ELSE (((a % 2) + (b % 2)) % 2) + 2 * BitXor[a \div 2, b \div 2]

\* sdl2's Rect::new: a rectangle is never thinner or lower than one pixel.
Rect(x, y, w, h) == [x |-> x, y |-> y, w |-> Max(1, w), h |-> Max(1, h)]

\* sdl2's Rect::contains_point: the right and bottom edges are outside.
contains_point(r, p) ==
    /\ p.x >= r.x /\ p.x < r.x + r.w
    /\ p.y >= r.y /\ p.y < r.y + r.h

\* ----------------------------------------------------------------- Player
One == "One"
Two == "Two"
Players == {One, Two}

\* next that never leaves Player Two.
Player_next_stuck(p) == Two

Player_next(p) == IF p = One THEN Two ELSE One

Human == "Human"
Computer == "Computer"

\* Game::new's player-role mapping.
players == [p \in Players |-> IF p = One THEN Human ELSE Computer]

\* ---------------------------------------------------------------- NimHeap
\* area_rectangle is left out: only draw's hover colour reads it.
\* new without the clamp of count to size.
NimHeap_new_unclamped(size, count) ==
    [size |-> size, count |-> count,
     corner_x |-> 0, corner_y |-> 0, stone_width |-> 1, stone_height |-> 1]

NimHeap_new(size, count) ==
    [size |-> size, count |-> Min(size, count),
     corner_x |-> 0, corner_y |-> 0, stone_width |-> 1, stone_height |-> 1]

get_nth_stone_rect(heap, n) ==
    LET empty_slots_count == heap.size - heap.count
    IN  Rect(heap.corner_x,
             heap.corner_y + (empty_slots_count + n) * heap.stone_height,
             heap.stone_width, heap.stone_height)

\* set_heap_sizes that also fills the heap up again.
set_heap_sizes_refills(heap, area_rectangle, stone_height) ==
    [heap EXCEPT !.corner_x = area_rectangle.x,
                 !.corner_y = area_rectangle.y,
                 !.stone_width = area_rectangle.w,
                 !.stone_height = stone_height,
                 !.count = heap.size]

set_heap_sizes(heap, area_rectangle, stone_height) ==
    [heap EXCEPT !.corner_x = area_rectangle.x,
                 !.corner_y = area_rectangle.y,
                 !.stone_width = area_rectangle.w,
                 !.stone_height = stone_height]

get_count(heap) == heap.count

\* The loop leaving count - i for count - i - 1 at a hit.
RECURSIVE prepare_move_loop_off_by_one(_, _, _)
prepare_move_loop_off_by_one(heap, point, i) ==
    IF i >= heap.count THEN heap.count
    ELSE IF contains_point(get_nth_stone_rect(heap, i), point)
    THEN heap.count - i
    ELSE prepare_move_loop_off_by_one(heap, point, i + 1)

\* prepare_move's loop from stone i on: the new_count it leaves.
RECURSIVE prepare_move_loop(_, _, _)
prepare_move_loop(heap, point, i) ==
    IF i >= heap.count THEN heap.count
    ELSE IF contains_point(get_nth_stone_rect(heap, i), point)
    THEN heap.count - i - 1
    ELSE prepare_move_loop(heap, point, i + 1)

prepare_move(heap, heap_index, point) ==
    IF prepare_move_loop(heap, point, 0) = heap.count THEN None
    ELSE Some([heap_index |-> heap_index,
               count_to_remove |-> heap.count - prepare_move_loop(heap, point, 0)])

\* ---------------------------------------------------------------- NimGame
\* A NimGame is [heaps, player]; heap_index counts from 0 as in the code,
\* heaps[i + 1] is the heap at index i.
default_heap == NimHeap_new(MaxStonesPerHeap, DefaultHeapCount)

NimGame_new == [heaps |-> <<>>, player |-> One]

add_heap(game, heap) == [game EXCEPT !.heaps = Append(@, heap)]

add_default_heap(game) == [game EXCEPT !.heaps = Append(@, default_heap)]

remove_last_heap(game) ==
    [game EXCEPT !.heaps = IF Len(@) = 0 THEN @ ELSE SubSeq(@, 1, Len(@) - 1)]

switch_player(game) == [game EXCEPT !.player = Player_next(@)]

\* make_move without the turn flip.
make_move_no_switch(game, nim_move) ==
    IF nim_move.heap_index >= Len(game.heaps) \/ nim_move.count_to_remove < 1
    THEN [ret |-> FALSE, game |-> game]
    ELSE IF game.heaps[nim_move.heap_index + 1].count < nim_move.count_to_remove
    THEN [ret |-> FALSE, game |-> game]
    ELSE [ret |-> TRUE,
          game |-> [game EXCEPT !.heaps[nim_move.heap_index + 1].count =
                                    @ - nim_move.count_to_remove]]

\* make_move without the count_to_remove < 1 test.
make_move_no_lower_test(game, nim_move) ==
    IF nim_move.heap_index >= Len(game.heaps)
    THEN [ret |-> FALSE, game |-> game]
    ELSE IF game.heaps[nim_move.heap_index + 1].count < nim_move.count_to_remove
    THEN [ret |-> FALSE, game |-> game]
    ELSE [ret |-> TRUE,
          game |-> switch_player(
                     [game EXCEPT !.heaps[nim_move.heap_index + 1].count =
                                      @ - nim_move.count_to_remove])]

\* make_move without the test of the heap's count, taking what there is.
make_move_saturating(game, nim_move) ==
    IF nim_move.heap_index >= Len(game.heaps) \/ nim_move.count_to_remove < 1
    THEN [ret |-> FALSE, game |-> game]
    ELSE [ret |-> TRUE,
          game |-> switch_player(
                     [game EXCEPT !.heaps[nim_move.heap_index + 1].count =
                                      Max(0, @ - nim_move.count_to_remove)])]

\* make_move: the value returned and the game it leaves.
make_move(game, nim_move) ==
    IF nim_move.heap_index >= Len(game.heaps) \/ nim_move.count_to_remove < 1
    THEN [ret |-> FALSE, game |-> game]
    ELSE IF game.heaps[nim_move.heap_index + 1].count < nim_move.count_to_remove
    THEN [ret |-> FALSE, game |-> game]
    ELSE [ret |-> TRUE,
          game |-> switch_player(
                     [game EXCEPT !.heaps[nim_move.heap_index + 1].count =
                                      @ - nim_move.count_to_remove])]

get_player_to_move(game) == game.player

\* is_game_over with any for all.
is_game_over_any(game) == \E i \in 1..Len(game.heaps) : game.heaps[i].count = 0

is_game_over(game) == \A i \in 1..Len(game.heaps) : game.heaps[i].count = 0

\* prepare_player_move's loop from the heap at index i on.
RECURSIVE prepare_player_move_loop(_, _, _)
prepare_player_move_loop(game, point, i) ==
    IF i >= Len(game.heaps) THEN None
    ELSE IF prepare_move(game.heaps[i + 1], i, point) # None
    THEN prepare_move(game.heaps[i + 1], i, point)
    ELSE prepare_player_move_loop(game, point, i + 1)

prepare_player_move(game, point) == prepare_player_move_loop(game, point, 0)

RECURSIVE fold_xor(_, _)
fold_xor(heaps, n) ==
    IF n = 0 THEN 0 ELSE BitXor[fold_xor(heaps, n - 1), get_count(heaps[n])]

all_counts_xor(game) == fold_xor(game.heaps, Len(game.heaps))

\* The heap indices, in rising order, whose count the xor would lower.
RECURSIVE filter_suitable(_, _, _)
filter_suitable(heaps, x, n) ==
    IF n = 0 THEN <<>>
    ELSE LET rest == filter_suitable(heaps, x, n - 1)
             count == get_count(heaps[n])
         IN  IF count > BitXor[count, x] THEN Append(rest, n - 1) ELSE rest

\* The filter with >= for >.
RECURSIVE filter_suitable_geq(_, _, _)
filter_suitable_geq(heaps, x, n) ==
    IF n = 0 THEN <<>>
    ELSE LET rest == filter_suitable_geq(heaps, x, n - 1)
             count == get_count(heaps[n])
         IN  IF count >= BitXor[count, x] THEN Append(rest, n - 1) ELSE rest

\* get_all_suitable_indices keeping the heaps the xor leaves as they are.
get_all_suitable_indices_geq(game) ==
    filter_suitable_geq(game.heaps, all_counts_xor(game), Len(game.heaps))

get_all_suitable_indices(game) ==
    filter_suitable(game.heaps, all_counts_xor(game), Len(game.heaps))

\* prepare_ai_move taking the xor itself off the chosen heap.
prepare_ai_move_removes_xor(game, random) ==
    LET suitable == get_all_suitable_indices(game)
    IN  IF Len(suitable) = 0 THEN None
        ELSE LET random_vector_index == random % Len(suitable)
                 heap_index == suitable[random_vector_index + 1]
                 heap_count == get_count(game.heaps[heap_index + 1])
             IN  Some([heap_index |-> heap_index,
                       count_to_remove |-> Min(heap_count, all_counts_xor(game))])

\* prepare_ai_move that, finding no suitable heap, asks for one counter of
\* some heap without looking whether it holds any.
prepare_ai_move_blind_fallback(game, random) ==
    LET suitable == get_all_suitable_indices(game)
    IN  IF Len(suitable) = 0
        THEN IF Len(game.heaps) = 0 THEN None
             ELSE Some([heap_index |-> random % Len(game.heaps),
                        count_to_remove |-> 1])
        ELSE LET random_vector_index == random % Len(suitable)
                 heap_index == suitable[random_vector_index + 1]
                 heap_count == get_count(game.heaps[heap_index + 1])
                 count_to_remove ==
                     heap_count - BitXor[heap_count, all_counts_xor(game)]
             IN  Some([heap_index |-> heap_index,
                       count_to_remove |-> count_to_remove])

\* prepare_ai_move taking the position in the vector for the heap's index.
prepare_ai_move_index_of_index(game, random) ==
    LET suitable == get_all_suitable_indices(game)
    IN  IF Len(suitable) = 0 THEN None
        ELSE LET random_vector_index == random % Len(suitable)
                 heap_index == random_vector_index
                 heap_count == get_count(game.heaps[heap_index + 1])
                 count_to_remove ==
                     heap_count - BitXor[heap_count, all_counts_xor(game)]
             IN  Some([heap_index |-> heap_index,
                       count_to_remove |-> count_to_remove])

\* prepare_ai_move emptying the heap it chose.
prepare_ai_move_takes_all(game, random) ==
    LET suitable == get_all_suitable_indices(game)
    IN  IF Len(suitable) = 0 THEN None
        ELSE LET random_vector_index == random % Len(suitable)
                 heap_index == suitable[random_vector_index + 1]
                 heap_count == get_count(game.heaps[heap_index + 1])
             IN  Some([heap_index |-> heap_index,
                       count_to_remove |-> heap_count])

\* prepare_ai_move, with random the value rand::random::<usize>() returns.
prepare_ai_move(game, random) ==
    LET suitable == get_all_suitable_indices(game)
    IN  IF Len(suitable) = 0 THEN None
        ELSE LET random_vector_index == random % Len(suitable)
                 heap_index == suitable[random_vector_index + 1]
                 heap_count == get_count(game.heaps[heap_index + 1])
                 count_to_remove ==
                     heap_count - BitXor[heap_count, all_counts_xor(game)]
             IN  Some([heap_index |-> heap_index,
                       count_to_remove |-> count_to_remove])

\* draw_board's layout: every heap gets its column and the stone pitch.
draw_board(game) ==
    LET sizes == {game.heaps[i].size : i \in 1..Len(game.heaps)}
        count_of_stones ==
            IF sizes = {} THEN 1 ELSE CHOOSE m \in sizes : \A k \in sizes : k <= m
        heap_height == GameAreaHeight
        \* `as u32` drops the fraction; the heaps Game::new builds all have
        \* size max_stones_per_heap >= 1, so count_of_stones is never 0 here
        stone_height == heap_height \div count_of_stones
        rectangle(i) ==
            Rect(i * (HeapWidthWithMargin + HalfMarginBetweenHeaps)
                     + MarginX + HalfMarginBetweenHeaps,
                 MarginTop + GameAreaHeight - heap_height,
                 HeapWidthWithMargin, heap_height)
    IN  [game EXCEPT !.heaps =
            [i \in 1..Len(game.heaps) |->
                set_heap_sizes(game.heaps[i], rectangle(i - 1), stone_height)]]

\* ------------------------------------------------------------------ state
VARIABLES
    nim_game,              \* Game.nim_game: [heaps, player]
    current_mouse_state,   \* Game.current_mouse_state: [point]; nothing reads the
                           \* button flags, nor previous_mouse_state
    last_human_move_time,  \* None, or the time elapsed since Some(instant),
                           \* which stops counting at microseconds_per_ai_move
    pc,                    \* where Game::run stands
    output,                \* what handle_game_ending printed: None or Some([winner, winner_type])
    call,                  \* the last make_move call: None or Some([by, nim_move, ret])
    accepted,              \* the number of make_move calls that returned true, modulo 2
    last_mover             \* the player to move when make_move last returned true

vars == <<nim_game, current_mouse_state, last_human_move_time, pc, output,
          call, accepted, last_mover>>

loop_vars == <<current_mouse_state, last_human_move_time, pc, output>>

Left == "Left"
Right == "Right"
MouseButtons == {Left, Right}

\* The window, in model pixels.
WindowWidth ==
    HeapsCount * (HeapWidthWithMargin + HalfMarginBetweenHeaps)
        + MarginX + HalfMarginBetweenHeaps
WindowHeight == MarginTop + GameAreaHeight
Points == [x : 0..(WindowWidth - 1), y : 0..(WindowHeight - 1)]

\* The values of rand::random::<usize>() that matter: every remainder.
Randoms == 0..(HeapsCount - 1)

\* The sizes of the heaps a caller adds: no slot at all, or as many as the
\* settings allow.
HeapSizes == {0, MaxStonesPerHeap}

\* The moves a caller may hand to make_move, the illegal ones among them.
NimMoves == [heap_index : 0..HeapsCount, count_to_remove : 0..(MaxStonesPerHeap + 1)]

\* A make_move call by `by`: the game it leaves, and the record of it.
\* (\E over a one-element set binds a value once where LET would bind an
\* expression.)
Call(by, nim_move) ==
    \E r \in {make_move(nim_game, nim_move)} :
        /\ nim_game' = r.game
        /\ call' = Some([by |-> by, nim_move |-> nim_move, ret |-> r.ret])
        /\ accepted' = IF r.ret THEN (accepted + 1) % 2 ELSE accepted
        /\ last_mover' = IF r.ret THEN Some(nim_game.player) ELSE last_mover

NoCall == UNCHANGED <<call, accepted, last_mover>>

\* ----------------------------------------------------- the engine's driver
EngineInit ==
    /\ nim_game = NimGame_new
    /\ current_mouse_state =
           [point |-> [x |-> 0, y |-> 0]]
    /\ last_human_move_time = None
    /\ pc = "engine"
    /\ output = None
    /\ call = None
    /\ accepted = 0
    /\ last_mover = None

ApiAddHeap(size, count) ==
    /\ Len(nim_game.heaps) < HeapsCount
    /\ nim_game' = add_heap(nim_game, NimHeap_new(size, count))
    /\ NoCall
    /\ UNCHANGED loop_vars

ApiAddDefaultHeap ==
    /\ Len(nim_game.heaps) < HeapsCount
    /\ nim_game' = add_default_heap(nim_game)
    /\ NoCall
    /\ UNCHANGED loop_vars

ApiRemoveLastHeap ==
    /\ nim_game' = remove_last_heap(nim_game)
    /\ NoCall
    /\ UNCHANGED loop_vars

ApiMakeMove(nim_move) ==
    /\ Call("api", nim_move)
    /\ UNCHANGED loop_vars

\* prepare_ai_move, and make_move with what it returns.
ApiAiMove(random) ==
    /\ \E nim_move_option \in {prepare_ai_move(nim_game, random)} :
           IF nim_move_option # None
           THEN Call("ai", Unwrap(nim_move_option))
           ELSE UNCHANGED nim_game /\ NoCall
    /\ UNCHANGED loop_vars

EngineNext ==
    \/ \E size \in HeapSizes, count \in 0..(MaxStonesPerHeap + 1) :
           ApiAddHeap(size, count)
    \/ ApiAddDefaultHeap
    \/ ApiRemoveLastHeap
    \/ \E nim_move \in NimMoves : ApiMakeMove(nim_move)
    \/ \E random \in Randoms : ApiAiMove(random)

EngineSpec == EngineInit /\ [][EngineNext]_vars

\* ------------------------------------------------------- the control loop
\* add_random_heap is not among the sources; a heap of max_stones_per_heap
\* slots holding the count drawn.
add_random_heap(game, random_count) ==
    add_heap(game, NimHeap_new(MaxStonesPerHeap, random_count))

\* The heaps_count calls of add_random_heap in Game::new.
RECURSIVE add_random_heaps(_, _, _)
add_random_heaps(game, random_counts, n) ==
    IF n = 0 THEN game
    ELSE add_random_heap(add_random_heaps(game, random_counts, n - 1),
                         random_counts[n])

\* Game::new.
Init ==
    /\ \E random_counts \in [1..HeapsCount -> 0..(MaxStonesPerHeap + 1)] :
           nim_game = add_random_heaps(NimGame_new, random_counts, HeapsCount)
    /\ current_mouse_state =
           [point |-> [x |-> 0, y |-> 0]]
    /\ last_human_move_time = None
    /\ pc = "poll"
    /\ output = None
    /\ call = None
    /\ accepted = 0
    /\ last_mover = None

\* handle_player_move without the look at the role of the player to move.
handle_player_move_any_turn ==
    \E nim_move_option \in {prepare_player_move(nim_game, current_mouse_state.point)} :
        IF nim_move_option # None
        THEN /\ Call("human", Unwrap(nim_move_option))
             /\ last_human_move_time' = Some(0)
        ELSE UNCHANGED <<nim_game, last_human_move_time>> /\ NoCall

handle_player_move ==
    \E player_to_move \in {get_player_to_move(nim_game)},
       nim_move_option \in {prepare_player_move(nim_game, current_mouse_state.point)} :
        IF players[player_to_move] = Human /\ nim_move_option # None
        THEN /\ Call("human", Unwrap(nim_move_option))
             /\ last_human_move_time' = Some(0)
        ELSE UNCHANGED <<nim_game, last_human_move_time>> /\ NoCall

handle_ai_move(random) ==
    \E player_to_move \in {get_player_to_move(nim_game)},
       nim_move_option \in {prepare_ai_move(nim_game, random)} :
        IF players[player_to_move] = Computer /\ nim_move_option # None
        THEN /\ Call("ai", Unwrap(nim_move_option))
             /\ last_human_move_time' = None
        ELSE UNCHANGED <<nim_game, last_human_move_time>> /\ NoCall

\* handle_ai_players without the comparison of the elapsed time.
handle_ai_players_no_delay(random) ==
    IF last_human_move_time # None
    THEN handle_ai_move(random)
    ELSE UNCHANGED <<nim_game, last_human_move_time>> /\ NoCall

handle_ai_players(random) ==
    IF /\ last_human_move_time # None
       /\ Unwrap(last_human_move_time) >= MicrosecondsPerAiMove
    THEN handle_ai_move(random)
    ELSE UNCHANGED <<nim_game, last_human_move_time>> /\ NoCall

handle_left_click_up == handle_player_move

\* handle_game_ending that names the player to move as the winner.
handle_game_ending_to_move(game) ==
    IF is_game_over(game)
    THEN LET winner == get_player_to_move(game)
         IN  Some([winner |-> winner, winner_type |-> players[winner]])
    ELSE None

\* handle_game_ending: what it prints, None when it returns false.
handle_game_ending(game) ==
    IF is_game_over(game)
    THEN LET player_to_move == get_player_to_move(game)
             winner == Player_next(player_to_move)
         IN  Some([winner |-> winner, winner_type |-> players[winner]])
    ELSE None

\* A quit that leaves the loop by way of the game-over check.
HandleEventQuit_reports ==
    /\ pc = "poll"
    /\ pc' = "stopped"
    /\ output' = handle_game_ending(nim_game)
    /\ UNCHANGED <<nim_game, current_mouse_state, last_human_move_time>>
    /\ NoCall

\* handle_event on Event::Quit or the Escape key: run breaks out of its loop.
HandleEventQuit ==
    /\ pc = "poll"
    /\ pc' = "stopped"
    /\ UNCHANGED <<nim_game, current_mouse_state, last_human_move_time, output>>
    /\ NoCall

\* handle_event on Event::MouseMotion.
HandleEventMouseMotion(point) ==
    /\ pc = "poll"
    /\ current_mouse_state' = [current_mouse_state EXCEPT !.point = point]
    /\ UNCHANGED <<nim_game, last_human_move_time, pc, output>>
    /\ NoCall

\* handle_event on Event::MouseButtonDown: it sets a button flag, no more.
HandleEventMouseButtonDown(mouse_btn) ==
    /\ pc = "poll"
    /\ mouse_btn \in MouseButtons
    /\ UNCHANGED <<nim_game, current_mouse_state, last_human_move_time, pc, output>>
    /\ NoCall

\* handle_event on Event::MouseButtonUp.
HandleEventMouseButtonUp(mouse_btn) ==
    /\ pc = "poll"
    /\ IF mouse_btn = Left
       THEN handle_left_click_up
       ELSE UNCHANGED <<nim_game, last_human_move_time>> /\ NoCall
    /\ UNCHANGED <<current_mouse_state, pc, output>>

\* poll_iter has no event left.
PollDone ==
    /\ pc = "poll"
    /\ pc' = "ai"
    /\ UNCHANGED <<nim_game, current_mouse_state, last_human_move_time, output>>
    /\ NoCall

HandleAiPlayers(random) ==
    /\ pc = "ai"
    /\ handle_ai_players(random)
    /\ pc' = "draw"
    /\ UNCHANGED <<current_mouse_state, output>>

\* draw_frame: all that stays of it is the layout draw_board gives the heaps.
DrawFrame ==
    /\ pc = "draw"
    /\ nim_game' = draw_board(nim_game)
    /\ pc' = "ending"
    /\ UNCHANGED <<current_mouse_state, last_human_move_time, output>>
    /\ NoCall

\* run that goes on to the next frame whatever handle_game_ending returns.
HandleGameEnding_keeps_running ==
    /\ pc = "ending"
    /\ output' = handle_game_ending(nim_game)
    /\ pc' = "wait"
    /\ UNCHANGED <<nim_game, current_mouse_state, last_human_move_time>>
    /\ NoCall

HandleGameEnding ==
    /\ pc = "ending"
    /\ output' = handle_game_ending(nim_game)
    /\ pc' = IF output' # None THEN "stopped" ELSE "wait"
    /\ UNCHANGED <<nim_game, current_mouse_state, last_human_move_time>>
    /\ NoCall

\* wait_to_next_frame: the frame has taken frame_time frame intervals.
WaitToNextFrame(frame_time) ==
    /\ pc = "wait"
    /\ last_human_move_time' =
           IF last_human_move_time = None THEN None
           ELSE Some(Min(MicrosecondsPerAiMove,
                         Unwrap(last_human_move_time) + frame_time))
    /\ pc' = "poll"
    /\ UNCHANGED <<nim_game, current_mouse_state, output>>
    /\ NoCall

\* One step of Game::run while no quit event comes.
Play ==
    \/ \E point \in Points : HandleEventMouseMotion(point)
    \/ \E mouse_btn \in MouseButtons : HandleEventMouseButtonDown(mouse_btn)
    \/ \E mouse_btn \in MouseButtons : HandleEventMouseButtonUp(mouse_btn)
    \/ PollDone
    \/ \E random \in Randoms : HandleAiPlayers(random)
    \/ DrawFrame
    \/ HandleGameEnding
    \/ \E frame_time \in 1..MaxFrameTime : WaitToNextFrame(frame_time)

Next == HandleEventQuit \/ Play

Spec == Init /\ [][Next]_vars

\* The human, whose turn it is, moves the pointer onto a counter.
HumanPointsAtCounter ==
    \E point \in Points :
        /\ players[get_player_to_move(nim_game)] = Human
        /\ prepare_player_move(nim_game, point) # None
        /\ HandleEventMouseMotion(point)

\* The human releases the button on a counter and the move is applied.
HumanClicksCounter == HandleEventMouseButtonUp(Left) /\ accepted' # accepted

\* The loop runs on: the event queue runs dry and every step of the tick is
\* taken; and the human keeps pointing at counters and clicking them.
FairSpec ==
    /\ Init /\ [][Play]_vars
    /\ WF_vars(PollDone)
    /\ WF_vars(\E random \in Randoms : HandleAiPlayers(random))
    /\ WF_vars(DrawFrame)
    /\ WF_vars(HandleGameEnding)
    /\ WF_vars(\E frame_time \in 1..MaxFrameTime : WaitToNextFrame(frame_time))
    /\ SF_vars(HumanPointsAtCounter)
    /\ SF_vars(HumanClicksCounter)

\* ------------------------------------------------------ claims, the engine
RECURSIVE SumCounts(_, _)
SumCounts(game, n) == IF n = 0 THEN 0 ELSE SumCounts(game, n - 1) + game.heaps[n].count

MaxCount(game) ==
    IF Len(game.heaps) = 0 THEN 0
    ELSE CHOOSE m \in {game.heaps[i].count : i \in 1..Len(game.heaps)} :
             \A i \in 1..Len(game.heaps) : game.heaps[i].count <= m

\* A step in which make_move returned true.
AcceptedStep == accepted' # accepted

\* Some heap that stays in place has another count after the step.
CountChanged ==
    \E i \in 1..Min(Len(nim_game.heaps), Len(nim_game'.heaps)) :
        nim_game'.heaps[i].count # nim_game.heaps[i].count

\* What the spec says makes a move illegal.
Illegal(game, nim_move) ==
    \/ nim_move.heap_index < 0
    \/ nim_move.heap_index > Len(game.heaps) - 1
    \/ nim_move.count_to_remove < 1
    \/ nim_move.count_to_remove > game.heaps[nim_move.heap_index + 1].count

\* C1: a make_move call that returns true takes exactly count_to_remove off
\* the heap at heap_index, leaves every other heap's count and the number of
\* heaps alone and hands the turn to the other player; and in no step does a
\* heap's count change without the turn changing, or the turn without a count.
C1_AcceptedMoveEffect ==
    /\ [][AcceptedStep =>
            LET m == Unwrap(call').nim_move
            IN  /\ m.heap_index + 1 \in 1..Len(nim_game.heaps)
                /\ Len(nim_game'.heaps) = Len(nim_game.heaps)
                /\ \A i \in 1..Len(nim_game.heaps) :
                       nim_game'.heaps[i].count =
                           IF i = m.heap_index + 1
                           THEN nim_game.heaps[i].count - m.count_to_remove
                           ELSE nim_game.heaps[i].count
                /\ nim_game'.player = Player_next(nim_game.player)
                /\ nim_game'.player # nim_game.player]_vars
    /\ [][CountChanged <=> nim_game'.player # nim_game.player]_vars

\* An accepted move in a game of two heaps, the other one not empty.
C1_Witness ==
    /\ call # None /\ Unwrap(call).ret
    /\ Len(nim_game.heaps) = 2
    /\ \E i \in 1..2 : i # Unwrap(call).nim_move.heap_index + 1
                        /\ nim_game.heaps[i].count > 0

\* C2: make_move returns false and changes neither a heap nor the turn when
\* heap_index is out of range, count_to_remove < 1 or count_to_remove exceeds
\* the heap's count, and returns true in every other case: of every move in
\* every reachable game, and of every call made.
C2_RejectsExactlyIllegal ==
    /\ [](\A m \in NimMoves :
            LET r == make_move(nim_game, m)
            IN  IF Illegal(nim_game, m)
                THEN r.ret = FALSE /\ r.game = nim_game
                ELSE r.ret = TRUE)
    /\ [][call' # call =>
            IF Illegal(nim_game, Unwrap(call').nim_move)
            THEN Unwrap(call').ret = FALSE /\ nim_game' = nim_game
            ELSE Unwrap(call').ret = TRUE]_vars

\* Scenario D's shape: count_to_remove = 0 on a heap that holds counters, rejected.
C2_Witness ==
    /\ call # None /\ ~Unwrap(call).ret
    /\ Unwrap(call).nim_move.count_to_remove = 0
    /\ Unwrap(call).nim_move.heap_index = 0
    /\ Len(nim_game.heaps) = 1 /\ nim_game.heaps[1].count > 0

\* C3: every heap of every reachable game has 0 <= count <= size, and so has
\* the heap NimHeap::new makes of any size and any count asked for.
C3_CountWithinCapacity ==
    /\ \A i \in 1..Len(nim_game.heaps) :
           /\ 0 <= nim_game.heaps[i].count
           /\ nim_game.heaps[i].count <= nim_game.heaps[i].size
    /\ \A size \in 0..MaxStonesPerHeap, count \in 0..(MaxStonesPerHeap + 1) :
           /\ 0 <= NimHeap_new(size, count).count
           /\ NimHeap_new(size, count).count <= size

\* A full heap emptied by one accepted move.
C3_Witness ==
    /\ call # None /\ Unwrap(call).ret
    /\ \E i \in 1..Len(nim_game.heaps) :
           /\ i = Unwrap(call).nim_move.heap_index + 1
           /\ nim_game.heaps[i].count = 0
           /\ nim_game.heaps[i].size = MaxStonesPerHeap

\* C4: where the xor of the counts is not 0, prepare_ai_move returns a move
\* whatever the random value, make_move accepts it and the xor of the counts
\* it leaves is 0; and every move the computer made left the xor at 0.
C4_AiMoveZeroesXor ==
    /\ [](all_counts_xor(nim_game) # 0 =>
            \A random \in Randoms :
                LET o == prepare_ai_move(nim_game, random)
                IN  /\ o # None
                    /\ make_move(nim_game, Unwrap(o)).ret
                    /\ all_counts_xor(make_move(nim_game, Unwrap(o)).game) = 0)
    /\ [][(call' # call \/ AcceptedStep) /\ Unwrap(call').by = "ai" =>
            /\ Unwrap(call').ret
            /\ all_counts_xor(nim_game') = 0]_vars

\* The game before the accepted move that call records.
BeforeCall ==
    [heaps |-> [nim_game.heaps EXCEPT ![Unwrap(call).nim_move.heap_index + 1].count =
                                          @ + Unwrap(call).nim_move.count_to_remove],
     player |-> Player_next(nim_game.player)]

\* The computer has moved where three heaps were suitable, and not on the
\* first of them.
C4_Witness ==
    /\ call # None /\ Unwrap(call).by = "ai" /\ Unwrap(call).ret
    /\ Len(nim_game.heaps) = 3
    /\ all_counts_xor(nim_game) = 0
    /\ all_counts_xor(BeforeCall) # 0
    /\ Len(get_all_suitable_indices(BeforeCall)) = 3
    /\ Unwrap(call).nim_move.heap_index # get_all_suitable_indices(BeforeCall)[1]

\* Whether a move is one make_move accepts.
Legal(game, nim_move) == ~Illegal(game, nim_move)

\* C5: with a heap that is not empty prepare_ai_move returns a legal move,
\* which takes exactly 1 counter when the xor of the counts is 0; it returns
\* nothing only when every heap is empty.
C5_AiAlwaysMoves ==
    \A random \in Randoms :
        LET o == prepare_ai_move(nim_game, random)
        IN  /\ ~is_game_over(nim_game) =>
                /\ o # None
                /\ Legal(nim_game, Unwrap(o))
                /\ all_counts_xor(nim_game) = 0 => Unwrap(o).count_to_remove = 1
            /\ o = None => is_game_over(nim_game)

\* C7: is_game_over is true exactly when the sum of the counts is 0, which is
\* when their maximum is 0, and so with no heap at all.
C7_OverIffAllEmpty ==
    /\ is_game_over(nim_game) <=> SumCounts(nim_game, Len(nim_game.heaps)) = 0
    /\ is_game_over(nim_game) <=> MaxCount(nim_game) = 0
    /\ Len(nim_game.heaps) = 0 => is_game_over(nim_game)

\* Two heaps, the last counter just taken.
C7_Witness ==
    /\ call # None /\ Unwrap(call).ret
    /\ Len(nim_game.heaps) = 2
    /\ nim_game.heaps[1].size > 0 /\ nim_game.heaps[2].size > 0
    /\ is_game_over(nim_game)

\* C8: from a new game, Player One is to move exactly when the number of
\* make_move calls that returned true is even.
C8_TurnParity == nim_game.player = One <=> accepted = 0

\* Player Two has made the latest accepted move and a rejected call followed.
C8_Witness ==
    /\ accepted = 0 /\ last_mover = Some(Two)
    /\ call # None /\ ~Unwrap(call).ret

\* ------------------------------------------------- claims, the control loop
\* C6: with the human playing One and the computer Two, the loop running
\* on and the human clicking counters on their turn, moves go on being
\* applied until every heap is empty and the loop stops.
C6_GameNeverStuck == <>(pc = "stopped" /\ is_game_over(nim_game))

\* C9: while the loop runs no heap's count ever rises, and no heap is added.
C9_CountsNeverIncrease ==
    [][/\ Len(nim_game'.heaps) = Len(nim_game.heaps)
       /\ \A i \in 1..Len(nim_game.heaps) :
              nim_game'.heaps[i].count <= nim_game.heaps[i].count]_vars

\* The human has clicked, the computer has answered and the board has been
\* laid out since.
C9_Witness ==
    /\ call # None /\ Unwrap(call).by = "ai" /\ Unwrap(call).ret
    /\ pc = "wait"
    /\ \A i \in 1..Len(nim_game.heaps) : nim_game.heaps[i].corner_x > 0
    /\ \E i \in 1..Len(nim_game.heaps) :
           /\ 0 < nim_game.heaps[i].count
           /\ nim_game.heaps[i].count < nim_game.heaps[i].size

\* C10: when the loop reports a winner after a move has been applied, the
\* winner is the player who made the last accepted move, and the role
\* reported is that player's.
C10_WinnerMovedLast ==
    (output # None /\ last_mover # None) =>
        /\ Unwrap(output).winner = Unwrap(last_mover)
        /\ Unwrap(output).winner_type = players[Unwrap(last_mover)]
        /\ pc = "stopped" /\ is_game_over(nim_game)

\* The computer took the last counter and is reported the winner.
C10_Witness ==
    /\ output # None /\ last_mover = Some(Two)
    /\ call # None /\ Unwrap(call).by = "ai" /\ Unwrap(call).ret
    /\ Unwrap(output).winner_type = Computer

\* C11 as stated: the winner reported is not the player who applied the most
\* recent move, and the loop has stopped.
C11_WinnerDidNotJustMove ==
    (output # None /\ last_mover # None) =>
        /\ Unwrap(output).winner # Unwrap(last_mover)
        /\ pc = "stopped"

\* C11: when the loop finds is_game_over true it reports the player who is
\* not to move, with that player's role, and stops; that player is the one who
\* applied the most recent move, if a move was applied. When is_game_over is
\* false it reports nothing and goes on to wait for the next frame.
C11_WinnerIsNotToMove ==
    [][pc = "ending" =>
          IF is_game_over(nim_game)
          THEN /\ output' # None
               /\ Unwrap(output').winner # get_player_to_move(nim_game)
               /\ Unwrap(output').winner_type = players[Unwrap(output').winner]
               /\ last_mover # None => Unwrap(output').winner = Unwrap(last_mover)
               /\ pc' = "stopped"
          ELSE output' = None /\ pc' = "wait"]_vars

\* The human took the last counter and is reported the winner.
C11_Witness ==
    /\ pc = "stopped" /\ output # None
    /\ last_mover = Some(One)
    /\ Unwrap(output).winner = One /\ Unwrap(output).winner_type = Human

\* The game of one heap of the given size and count.
SingleHeap(size, count) == add_heap(NimGame_new, NimHeap_new(size, count))

\* C12: in every reachable game whose counts sum to 0, and in the game of the
\* single heap {0}, prepare_ai_move returns nothing whatever the random value
\* and is_game_over is true.
C12_AllEmptyNoAiMove ==
    /\ SumCounts(nim_game, Len(nim_game.heaps)) = 0 =>
           /\ \A random \in Randoms : prepare_ai_move(nim_game, random) = None
           /\ is_game_over(nim_game)
    /\ \A size \in 0..MaxStonesPerHeap, random \in Randoms :
           /\ prepare_ai_move(SingleHeap(size, 0), random) = None
           /\ is_game_over(SingleHeap(size, 0))

\* Scenario C's shape: a single heap with room for counters and none left,
\* the computer having taken the last of them.
C12_Witness ==
    /\ Len(nim_game.heaps) = 1
    /\ nim_game.heaps[1].size = MaxStonesPerHeap /\ nim_game.heaps[1].count = 0
    /\ call # None /\ Unwrap(call).by = "ai" /\ Unwrap(call).ret

\* A step in which make_move was called.
CallStep == call' # call \/ AcceptedStep

\* C13: make_move is called through the human input path only while events
\* are handled and the player to move is a Human, and through the AI path only
\* in handle_ai_players and while the player to move is a Computer; and no
\* event handled while the player to move is a Computer, a button release at
\* any pointer position among them, changes a heap, the turn or the AI delay
\* timer.
C13_PathsGatedByRole ==
    /\ [][CallStep /\ Unwrap(call').by = "human" =>
              /\ players[get_player_to_move(nim_game)] = Human
              /\ pc = "poll"]_vars
    /\ [][CallStep /\ Unwrap(call').by = "ai" =>
              /\ players[get_player_to_move(nim_game)] = Computer
              /\ pc = "ai"]_vars
    /\ [][pc = "poll" /\ players[get_player_to_move(nim_game)] = Computer =>
              UNCHANGED <<nim_game, last_human_move_time, call, accepted>>]_vars

\* The human has moved, it is the computer's turn, the delay is running and
\* events are handled with the pointer on a counter that a click would take.
C13_Witness ==
    /\ pc = "poll"
    /\ players[get_player_to_move(nim_game)] = Computer
    /\ call # None /\ Unwrap(call).by = "human" /\ Unwrap(call).ret
    /\ last_human_move_time # None /\ Unwrap(last_human_move_time) >= 1
    /\ prepare_player_move(nim_game, current_mouse_state.point) # None

\* C14: the computer's move is applied only when the timer started by the
\* latest human move shows at least microseconds_per_ai_move; the step that
\* applies it resets the timer, and the move before it was the human's, so
\* one computer move at most follows a human move; and while the timer is
\* not set the computer applies nothing.
C14_AiMoveAfterDelay ==
    /\ [][CallStep /\ Unwrap(call').by = "ai" =>
              /\ last_human_move_time # None
              /\ Unwrap(last_human_move_time) >= MicrosecondsPerAiMove
              /\ last_human_move_time' = None
              /\ call # None /\ Unwrap(call).by = "human" /\ Unwrap(call).ret
              /\ last_mover # None /\ players[Unwrap(last_mover)] = Human]_vars
    /\ [][CallStep /\ Unwrap(call').by = "human" =>
              last_human_move_time' = Some(0)]_vars
    /\ [][last_human_move_time = None /\ pc = "ai" =>
              UNCHANGED <<nim_game, call, accepted>>]_vars

\* The computer has just applied its move, the timer is reset and counters
\* are left for the human.
C14_Witness ==
    /\ pc = "draw"
    /\ call # None /\ Unwrap(call).by = "ai" /\ Unwrap(call).ret
    /\ last_human_move_time = None
    /\ ~is_game_over(nim_game)

\* The heap indices i with count_i > count_i ^ x, x the xor of all counts.
SuitableSet(game) ==
    {i \in 0..(Len(game.heaps) - 1) :
        game.heaps[i + 1].count >
            BitXor[game.heaps[i + 1].count, all_counts_xor(game)]}

\* C15: what prepare_ai_move collects is the set of the heaps with
\* count > count ^ X, each once; that set is not empty whenever the xor X of
\* the counts is not 0, and empty whenever X is 0.
C15_SuitableIffXorNonZero ==
    LET suitable == get_all_suitable_indices(nim_game)
    IN  /\ {suitable[k] : k \in 1..Len(suitable)} = SuitableSet(nim_game)
        /\ Len(suitable) = Cardinality(SuitableSet(nim_game))
        /\ all_counts_xor(nim_game) # 0 => Len(suitable) > 0
        /\ all_counts_xor(nim_game) = 0 => Len(suitable) = 0

\* The computer moved where one heap of three was suitable, and left the xor
\* at 0 with counters on the board.
C15_Witness ==
    /\ call # None /\ Unwrap(call).by = "ai" /\ Unwrap(call).ret
    /\ Len(nim_game.heaps) = 3
    /\ all_counts_xor(BeforeCall) # 0
    /\ Len(get_all_suitable_indices(BeforeCall)) = 1
    /\ all_counts_xor(nim_game) = 0
    /\ ~is_game_over(nim_game)
    /\ Len(get_all_suitable_indices(nim_game)) = 0

\* The offsets, counted from the top, of the counters of a heap that the
\* point lies on.
CountersAt(heap, point) ==
    {i \in 0..(heap.count - 1) : contains_point(get_nth_stone_rect(heap, i), point)}

\* C16: while events are handled, of every heap of every game the loop
\* reaches, laid out or not, and the point the pointer is at, which is any
\* point of the window: a point on the counter at offset i from the top lies
\* on no other counter of the heap and prepare_move returns the move of i + 1
\* counters from that heap; a point on no counter gives nothing. And the move
\* prepare_player_move builds takes between 1 and the count of its heap and
\* make_move accepts it, as it does every call of the human path.
C16_HitTestCount ==
    /\ [](pc = "poll" =>
             \A k \in 1..Len(nim_game.heaps) :
             \E heap \in {nim_game.heaps[k]}, point \in {current_mouse_state.point} :
             \E hits \in {CountersAt(heap, point)},
                o \in {prepare_move(heap, k - 1, point)} :
                 IF hits = {} THEN o = None
                 ELSE \E i \in hits :
                          /\ hits = {i}
                          /\ o = Some([heap_index |-> k - 1,
                                       count_to_remove |-> i + 1]))
    /\ [](pc = "poll" =>
             \E o \in {prepare_player_move(nim_game, current_mouse_state.point)} :
             o # None =>
                 /\ Unwrap(o).heap_index + 1 \in 1..Len(nim_game.heaps)
                 /\ 1 <= Unwrap(o).count_to_remove
                 /\ Unwrap(o).count_to_remove <=
                        nim_game.heaps[Unwrap(o).heap_index + 1].count
                 /\ make_move(nim_game, Unwrap(o)).ret)
    /\ [][CallStep /\ Unwrap(call').by = "human" => Unwrap(call').ret]_vars

\* The human clicked the second counter from the top of a laid-out heap and
\* both counters were taken.
C16_Witness ==
    /\ call # None /\ Unwrap(call).by = "human" /\ Unwrap(call).ret
    /\ Unwrap(call).nim_move.count_to_remove = 2
    /\ nim_game.heaps[Unwrap(call).nim_move.heap_index + 1].corner_x > 0
    /\ current_mouse_state.point.y =
           nim_game.heaps[Unwrap(call).nim_move.heap_index + 1].corner_y
               + (nim_game.heaps[Unwrap(call).nim_move.heap_index + 1].size - 1)
                     * nim_game.heaps[Unwrap(call).nim_move.heap_index + 1].stone_height

\* C17: the loop leaves the event phase for its end only on a quit signal,
\* and that step changes nothing: what earlier events of the tick did stays,
\* no move is applied and nothing is reported; once the loop has stopped no
\* step follows, so no later event is handled, no move applied and no report
\* made; and a report is only ever made by the step that stops the loop.
C17_QuitStopsAtOnce ==
    /\ [][pc = "poll" /\ pc' = "stopped" =>
              UNCHANGED <<nim_game, current_mouse_state, last_human_move_time,
                          output, call, accepted, last_mover>>]_vars
    /\ [][pc # "stopped"]_vars
    /\ [][output' # output => pc = "ending" /\ pc' = "stopped"]_vars
    /\ [](output # None => pc = "stopped")

\* The human took the last counter and the quit signal came in the same
\* tick: the pointer is where it was moved to, the move stands and no winner
\* is reported.
C17_Witness ==
    /\ pc = "stopped" /\ output = None
    /\ call # None /\ Unwrap(call).by = "human" /\ Unwrap(call).ret
    /\ last_human_move_time = Some(0)
    /\ current_mouse_state.point # [x |-> 0, y |-> 0]
    /\ is_game_over(nim_game)

\* C18: whatever the random value, a move prepare_ai_move returns names a
\* heap of the game and takes at least 1 and at most that heap's count, so
\* make_move accepts it; and the heap's count is not below count ^ X, so the
\* subtraction that gives count_to_remove stays within u32.
C18_AiMoveLegal ==
    \A random \in Randoms :
        LET o == prepare_ai_move(nim_game, random)
        IN  o # None =>
                /\ 0 <= Unwrap(o).heap_index
                /\ Unwrap(o).heap_index < Len(nim_game.heaps)
                /\ 1 <= Unwrap(o).count_to_remove
                /\ Unwrap(o).count_to_remove <=
                       get_count(nim_game.heaps[Unwrap(o).heap_index + 1])
                /\ get_count(nim_game.heaps[Unwrap(o).heap_index + 1]) >=
                       BitXor[get_count(nim_game.heaps[Unwrap(o).heap_index + 1]),
                              all_counts_xor(nim_game)]
                /\ make_move(nim_game, Unwrap(o)).ret

\* The computer took part of a heap that is not the first, the first
\* holding counters too.
C18_Witness ==
    /\ call # None /\ Unwrap(call).by = "ai" /\ Unwrap(call).ret
    /\ Unwrap(call).nim_move.heap_index > 0
    /\ Len(nim_game.heaps) > Unwrap(call).nim_move.heap_index
    /\ nim_game.heaps[Unwrap(call).nim_move.heap_index + 1].count > 0
    /\ nim_game.heaps[1].count > 0

\* C19: in the loop every move the computer applies leaves the xor of the
\* counts at 0 and the turn with the human. The calls of make_move alternate
\* between the two paths, the human's first, so a human's call with a call
\* before it comes after a computer's move: it starts from xor 0 and leaves
\* a xor that is not 0, hence counters on the board. The human empties the
\* board only by the first call of all, and a Human is reported the winner
\* only with the human's call the latest.
C19_ComputerLeavesXorZero ==
    /\ [][CallStep /\ Unwrap(call').by = "ai" =>
              /\ Unwrap(call').ret
              /\ all_counts_xor(nim_game') = 0
              /\ players[get_player_to_move(nim_game')] = Human]_vars
    /\ [][CallStep =>
              IF call = None THEN Unwrap(call').by = "human"
              ELSE Unwrap(call').by # Unwrap(call).by]_vars
    /\ [][CallStep /\ Unwrap(call').by = "human" /\ call # None =>
              /\ Unwrap(call).by = "ai"
              /\ all_counts_xor(nim_game) = 0
              /\ all_counts_xor(nim_game') # 0
              /\ ~is_game_over(nim_game')]_vars
    /\ [][CallStep /\ Unwrap(call').by = "human" /\ is_game_over(nim_game') =>
              call = None]_vars
    /\ [][output' # output /\ Unwrap(output').winner_type = Human =>
              /\ Unwrap(call).by = "human"
              /\ last_mover = Some(One)]_vars

\* The computer has moved and left two heaps with counters at xor 0; the
\* human, to move, has the pointer on a counter.
C19_Witness ==
    /\ pc = "poll"
    /\ call # None /\ Unwrap(call).by = "ai" /\ Unwrap(call).ret
    /\ all_counts_xor(nim_game) = 0
    /\ Cardinality({i \in 1..Len(nim_game.heaps) : nim_game.heaps[i].count > 0}) = 2
    /\ players[get_player_to_move(nim_game)] = Human
    /\ prepare_player_move(nim_game, current_mouse_state.point) # None

\* C20: in a game that is over make_move rejects every move and leaves the
\* game as it is, and prepare_player_move, at any point, and prepare_ai_move,
\* at any random value, return nothing; and a step from a game that is over
\* which adds no heap leaves it over, with the same player to move and the
\* same count in every heap that stays.
C20_TerminalAbsorbing ==
    /\ [](is_game_over(nim_game) =>
             /\ \A nim_move \in NimMoves :
                    /\ ~make_move(nim_game, nim_move).ret
                    /\ make_move(nim_game, nim_move).game = nim_game
             /\ \A point \in Points : prepare_player_move(nim_game, point) = None
             /\ \A random \in Randoms : prepare_ai_move(nim_game, random) = None)
    /\ [][is_game_over(nim_game) /\ Len(nim_game'.heaps) <= Len(nim_game.heaps) =>
              /\ is_game_over(nim_game')
              /\ get_player_to_move(nim_game') = get_player_to_move(nim_game)
              /\ \A i \in 1..Len(nim_game'.heaps) :
                     nim_game'.heaps[i].count = nim_game.heaps[i].count
              /\ accepted' = accepted]_vars

\* Two heaps were emptied by moves, and a make_move call made after that
\* was rejected.
C20_Witness ==
    /\ is_game_over(nim_game)
    /\ Len(nim_game.heaps) = 2
    /\ nim_game.heaps[1].size > 0 /\ nim_game.heaps[2].size > 0
    /\ last_mover # None
    /\ call # None /\ ~Unwrap(call).ret
    /\ Unwrap(call).nim_move.heap_index < 2
    /\ Unwrap(call).nim_move.count_to_remove >= 1

====
